---- MODULE Spec2Model ----
(***************************************************************************)
(* Model of vc_balanced.py: a deterministic pushdown automaton (built with *)
(* automata-lib's DPDA) that accepts a sentence when the number of words   *)
(* starting with a vowel equals the number of words starting with a        *)
(* consonant, the stepsTable display of its configurations, and the menu   *)
(* loop that drives both.                                                  *)
(*                                                                         *)
(* Strings are sequences of one-character strings.  A stack is kept as     *)
(* PDAStack keeps it: a tuple whose LAST element is the top.               *)
(***************************************************************************)
EXTENDS Integers, Sequences, FiniteSets, TLC

\* ---------------------------------------------------------------- bounds
\* longest text typed at the "Input words here: " prompt (Spec)
MaxLen == 4
\* longest prefix of an input handed directly to stepsTable (SpecCall)
MaxPrefix == 3

\* ------------------------------------------------- automaton definition
Vowels == {"a", "e", "i", "o", "u"}
Consonants == {"b", "c", "d", "f", "g", "h", "j", "k", "l", "m", "n",
               "p", "q", "r", "s", "t", "v", "w", "x", "y", "z"}
Letters == Vowels \cup Consonants

states == {"q0", "q1", "q2"}
input_symbols == {"!", " "} \cup Letters
stack_symbols == {"S", "V", "C"}
initial_state == "q0"
initial_stack_symbol == "S"
final_states == {"q2"}
\* acceptance by final state instead of by empty stack
acceptance_mode_final == "final_state"
\* acceptance by either
acceptance_mode_both == "both"

acceptance_mode == "empty_stack"

\* An entry of the table: the new state and the tuple that replaces the
\* stack top (first element = new top; <<>> is the '' of the source: pop).
Entry(q, push) == [state |-> q, push |-> push]

\* q0_transitions with the cancelling entries pushing instead of popping
q0_transitions_nocancel(a, X) ==
    CASE a = "!" -> IF X = "S" THEN Entry("q2", <<>>) ELSE Entry("q2", <<X>>)
      [] a = " " -> Entry("q0", <<X>>)
      [] a \in Vowels -> Entry("q1", <<"V", X>>)
      [] a \in Consonants -> Entry("q1", <<"C", X>>)

\* q0_transitions with the entries of 'y' written as those of a vowel
q0_transitions_y(a, X) ==
    CASE a = "!" -> IF X = "S" THEN Entry("q2", <<>>) ELSE Entry("q2", <<X>>)
      [] a = " " -> Entry("q0", <<X>>)
      [] a \in Vowels \cup {"y"} ->
            (CASE X = "S" -> Entry("q1", <<"V", "S">>)
               [] X = "V" -> Entry("q1", <<"V", "V">>)
               [] X = "C" -> Entry("q1", <<>>))
      [] a \in Consonants \ {"y"} ->
            (CASE X = "S" -> Entry("q1", <<"C", "S">>)
               [] X = "V" -> Entry("q1", <<>>)
               [] X = "C" -> Entry("q1", <<"C", "C">>))

\* q0_transitions with the entries on 'S' not pushing 'S' back
q0_transitions_losebottom(a, X) ==
    CASE a = "!" -> IF X = "S" THEN Entry("q2", <<>>) ELSE Entry("q2", <<X>>)
      [] a = " " -> Entry("q0", <<X>>)
      [] a \in Vowels ->
            (CASE X = "S" -> Entry("q1", <<"V">>)
               [] X = "V" -> Entry("q1", <<"V", "V">>)
               [] X = "C" -> Entry("q1", <<>>))
      [] a \in Consonants ->
            (CASE X = "S" -> Entry("q1", <<"C">>)
               [] X = "V" -> Entry("q1", <<>>)
               [] X = "C" -> Entry("q1", <<"C", "C">>))

\* transitions['q0'][a][X]
q0_transitions(a, X) ==
    CASE a = "!" -> IF X = "S" THEN Entry("q2", <<>>) ELSE Entry("q2", <<X>>)
      [] a = " " -> Entry("q0", <<X>>)
      [] a \in Vowels ->
            (CASE X = "S" -> Entry("q1", <<"V", "S">>)
               [] X = "V" -> Entry("q1", <<"V", "V">>)
               [] X = "C" -> Entry("q1", <<>>))
      [] a \in Consonants ->
            (CASE X = "S" -> Entry("q1", <<"C", "S">>)
               [] X = "V" -> Entry("q1", <<>>)
               [] X = "C" -> Entry("q1", <<"C", "C">>))

\* q1_transitions counting every letter of a word, as q0 does
q1_transitions_recount(a, X) ==
    CASE a = "!" -> IF X = "S" THEN Entry("q2", <<>>) ELSE Entry("q2", <<X>>)
      [] a = " " -> Entry("q0", <<X>>)
      [] a \in Letters -> q0_transitions(a, X)

\* q1_transitions with the space entries staying in q1
q1_transitions_stay(a, X) ==
    CASE a = "!" -> IF X = "S" THEN Entry("q2", <<>>) ELSE Entry("q2", <<X>>)
      [] a = " " -> Entry("q1", <<X>>)
      [] a \in Letters -> Entry("q1", <<X>>)

\* q1_transitions with END on a credit staying in q1
q1_transitions_endstay(a, X) ==
    CASE a = "!" -> IF X = "S" THEN Entry("q2", <<>>) ELSE Entry("q1", <<X>>)
      [] a = " " -> Entry("q0", <<X>>)
      [] a \in Letters -> Entry("q1", <<X>>)

\* q1_transitions with END popping whatever is on top
q1_transitions_endpop(a, X) ==
    CASE a = "!" -> Entry("q2", <<>>)
      [] a = " " -> Entry("q0", <<X>>)
      [] a \in Letters -> Entry("q1", <<X>>)

\* transitions['q1'][a][X]
q1_transitions(a, X) ==
    CASE a = "!" -> IF X = "S" THEN Entry("q2", <<>>) ELSE Entry("q2", <<X>>)
      [] a = " " -> Entry("q0", <<X>>)
      [] a \in Letters -> Entry("q1", <<X>>)

\* the nested dictionary with the entry of q1 for a space on 'C' missing
HasTransition_gap(q, a, X) ==
    /\ q \in {"q0", "q1"}
    /\ a \in input_symbols
    /\ X \in stack_symbols
    /\ <<q, a, X>> /= <<"q1", " ", "C">>

\* the keys present in the nested dictionary
HasTransition(q, a, X) ==
    /\ q \in {"q0", "q1"}
    /\ a \in input_symbols
    /\ X \in stack_symbols

transitions(q, a, X) ==
    IF q = "q0" THEN q0_transitions(a, X) ELSE q1_transitions(a, X)

\* ------------------------------------- automata-lib DPDA, as it is used
RECURSIVE Reverse(_)
Reverse(s) == IF s = <<>> THEN <<>> ELSE Append(Reverse(Tail(s)), Head(s))

Configuration(q, rest, stack) ==
    [state |-> q, remaining_input |-> rest, stack |-> stack]

\* the value of `config` while no generator has produced a configuration
NoConfig == Configuration("", <<>>, <<>>)

\* PDAStack.top(): '' on an empty stack
top(stack) == IF stack = <<>> THEN "" ELSE stack[Len(stack)]

\* PDAStack.pop() / PDAStack.replace() as DPDA._replace_stack_top uses them
replace_stack_top(stack, new_stack_top) ==
    IF new_stack_top = <<>>
    THEN SubSeq(stack, 1, Len(stack) - 1)
    ELSE SubSeq(stack, 1, Len(stack) - 1) \o Reverse(new_stack_top)

\* DPDA._has_lambda_transition: the table has no '' input key
has_lambda_transition(q, X) == HasTransition(q, "", X)

\* PDA._has_accepted
has_accepted(c) ==
    /\ c.remaining_input = <<>>
    /\ \/ acceptance_mode \in {"empty_stack", "both"} /\ c.stack = <<>>
       \/ acceptance_mode \in {"final_state", "both"} /\ c.state \in final_states

\* DPDA._get_next_configuration: [ok |-> FALSE] is the RejectionException
\* raised when no transition is defined for (state, symbol, stack top)
get_next_configuration(old) ==
    LET X == top(old.stack)
        byInput == old.remaining_input /= <<>>
                   /\ HasTransition(old.state, Head(old.remaining_input), X)
        byLambda == has_lambda_transition(old.state, X)
    IN  IF byInput
        THEN LET t == transitions(old.state, Head(old.remaining_input), X)
             IN  [ok |-> TRUE,
                  config |-> Configuration(t.state, Tail(old.remaining_input),
                                           replace_stack_top(old.stack, t.push))]
        ELSE IF byLambda
        THEN LET t == transitions(old.state, "", X)
             IN  [ok |-> TRUE,
                  config |-> Configuration(t.state, old.remaining_input,
                                           replace_stack_top(old.stack, t.push))]
        ELSE [ok |-> FALSE, config |-> old]

\* read_input_stepwise keeping the stack of the previous read
read_input_stepwise_shared(g, c, input_str) ==
    IF g = "created"
    THEN [kind |-> "yield",
          config |-> Configuration(initial_state, input_str,
                                   IF c.stack = <<>> THEN <<initial_stack_symbol>>
                                                     ELSE c.stack)]
    ELSE IF c.remaining_input /= <<>>
            \/ has_lambda_transition(c.state, top(c.stack))
    THEN LET n == get_next_configuration(c)
         IN  IF n.ok THEN [kind |-> "yield", config |-> n.config]
                     ELSE [kind |-> "raise", config |-> c]
    ELSE IF has_accepted(c)
    THEN [kind |-> "stop", config |-> c]
    ELSE [kind |-> "raise", config |-> c]

\* read_input_stepwise not yielding the initial configuration
read_input_stepwise_noinit(g, c, input_str) ==
    LET start == Configuration(initial_state, input_str, <<initial_stack_symbol>>)
        cur == IF g = "created" THEN start ELSE c
    IN  IF cur.remaining_input /= <<>>
           \/ has_lambda_transition(cur.state, top(cur.stack))
        THEN LET n == get_next_configuration(cur)
             IN  IF n.ok THEN [kind |-> "yield", config |-> n.config]
                         ELSE [kind |-> "raise", config |-> cur]
        ELSE IF has_accepted(cur)
        THEN [kind |-> "stop", config |-> cur]
        ELSE [kind |-> "raise", config |-> cur]

\* One resumption of the generator DPDA.read_input_stepwise(input_str).
\* g is "created" before the first resumption and "running" afterwards.
\* kind "yield": the next configuration; "stop": the generator returned;
\* "raise": it raised RejectionException.
read_input_stepwise(g, c, input_str) ==
    IF g = "created"
    THEN [kind |-> "yield",
          config |-> Configuration(initial_state, input_str,
                                   <<initial_stack_symbol>>)]
    ELSE IF c.remaining_input /= <<>>
            \/ has_lambda_transition(c.state, top(c.stack))
    THEN LET n == get_next_configuration(c)
         IN  IF n.ok THEN [kind |-> "yield", config |-> n.config]
                     ELSE [kind |-> "raise", config |-> c]
    ELSE IF has_accepted(c)
    THEN [kind |-> "stop", config |-> c]
    ELSE [kind |-> "raise", config |-> c]

\* DPDA.accepts_input, run to completion: the configurations are consumed
\* until the generator returns (True) or raises RejectionException (False)
RECURSIVE read_input(_, _, _)
read_input(g, c, input_str) ==
    LET r == read_input_stepwise(g, c, input_str)
    IN  IF r.kind = "yield" THEN read_input("running", r.config, input_str)
        ELSE r.kind = "stop"

accepts_input(input_str) == read_input("created", NoConfig, input_str)

\* ------------------------------------------- Python string operations
\* str.split(sep): the pieces between occurrences of sep, at least one
StartsWith(s, p) == Len(s) >= Len(p) /\ SubSeq(s, 1, Len(p)) = p

RECURSIVE SplitAcc(_, _, _)
SplitAcc(s, sep, cur) ==
    IF s = <<>> THEN <<cur>>
    ELSE IF StartsWith(s, sep)
    THEN <<cur>> \o SplitAcc(SubSeq(s, Len(sep) + 1, Len(s)), sep, <<>>)
    ELSE SplitAcc(Tail(s), sep, Append(cur, Head(s)))

split(s, sep) == SplitAcc(s, sep, <<>>)

\* str.replace("'", "")
remove_quotes(s) == SelectSeq(s, LAMBDA c : c /= "'")

\* ''.join(pieces)
RECURSIVE join(_)
join(pieces) == IF pieces = <<>> THEN <<>> ELSE Head(pieces) \o join(Tail(pieces))

Chars(s) == {s[i] : i \in 1..Len(s)}

\* repr() of a str: quoted, with newline, backslash and the quote escaped
repr_quote(s) == IF "'" \in Chars(s) /\ "\"" \notin Chars(s) THEN "\"" ELSE "'"

repr_char(c, q) ==
    CASE c = "\n" -> <<"\\", "n">>
      [] c = "\\" -> <<"\\", "\\">>
      [] c = q    -> <<"\\", c>>
      [] OTHER    -> <<c>>

repr_str(s) ==
    LET q == repr_quote(s)
    IN  <<q>> \o join([i \in 1..Len(s) |-> repr_char(s[i], q)]) \o <<q>>

\* repr() of a tuple of one-character strings: ('S', 'V'), ('S',), ()
RECURSIVE comma_join(_)
comma_join(pieces) ==
    IF pieces = <<>> THEN <<>>
    ELSE IF Len(pieces) = 1 THEN Head(pieces)
    ELSE Head(pieces) \o <<",", " ">> \o comma_join(Tail(pieces))

repr_tuple(t) ==
    <<"(">> \o comma_join([i \in 1..Len(t) |-> repr_str(<<t[i]>>)])
            \o (IF Len(t) = 1 THEN <<",">> ELSE <<>>) \o <<")">>

PDACONF == <<"P", "D", "A", "C", "o", "n", "f", "i", "g", "u", "r", "a", "t", "i", "o", "n", "(">>
PDASTACK == <<"P", "D", "A", "S", "t", "a", "c", "k">>
\* the literal written for an empty stack printed as PDAStack(())
EMPTYSTACK_tuple == <<"P", "D", "A", "S", "t", "a", "c", "k", "(", "(", ")", ")", ")">>
EMPTYSTACK == <<"P", "D", "A", "S", "t", "a", "c", "k", "(", ")", ")">>

\* str(step) of a PDAConfiguration, in the format the parsing code of
\* stepsTable is written against: PDAConfiguration('q0', 'ab!', PDAStack('S', 'V'))
\* with an empty stack shown as PDAStack()
state_name(q) ==
    CASE q = "q0" -> <<"q", "0">>
      [] q = "q1" -> <<"q", "1">>
      [] q = "q2" -> <<"q", "2">>

str(step) ==
    PDACONF \o repr_str(state_name(step.state)) \o <<",", " ">>
        \o repr_str(step.remaining_input) \o <<",", " ">>
        \o PDASTACK \o repr_tuple(step.stack) \o <<")">>

\* str.lower() on one character
lower_char(c) ==
    CASE c = "A" -> "a"
      [] c = "B" -> "b"
      [] c = "C" -> "c"
      [] c = "D" -> "d"
      [] c = "E" -> "e"
      [] c = "F" -> "f"
      [] c = "G" -> "g"
      [] c = "H" -> "h"
      [] c = "I" -> "i"
      [] c = "J" -> "j"
      [] c = "K" -> "k"
      [] c = "L" -> "l"
      [] c = "M" -> "m"
      [] c = "N" -> "n"
      [] c = "O" -> "o"
      [] c = "P" -> "p"
      [] c = "Q" -> "q"
      [] c = "R" -> "r"
      [] c = "S" -> "s"
      [] c = "T" -> "t"
      [] c = "U" -> "u"
      [] c = "V" -> "v"
      [] c = "W" -> "w"
      [] c = "X" -> "x"
      [] c = "Y" -> "y"
      [] c = "Z" -> "z"
      [] OTHER -> c

lower(s) == [i \in 1..Len(s) |-> lower_char(s[i])]

\* re.match("^[a-z ]+$", s): one or more of [a-z ], then the end of the
\* string or a single newline that ends the string
re_match(s) ==
    \E n \in 1..Len(s) :
        /\ \A i \in 1..n : s[i] \in Letters \cup {" "}
        /\ \/ n = Len(s)
           \/ n = Len(s) - 1 /\ s[Len(s)] = "\n"

\* InputValidator(alphaSpace=True).validate: TRUE when no ValidationError
validate(text) == text /= <<>> /\ re_match(lower(text))

\* ---------------------------------------------------------- stepsTable
epsilon == <<"epsilon">>
FailureMessage == "The input is empty but the stack is not empty!"

\* Row joining the stack symbols without reversed(): bottom first
Row_bottom_first(step) ==
    LET parts == split(str(step), <<",", " ">>)
        p0 == split(parts[1], <<"'">>)
        stack_parts == SubSeq(parts, 3, Len(parts))
        pieces == [i \in 1..Len(stack_parts) |-> split(stack_parts[i], <<"'">>)]
        rem == remove_quotes(parts[2])
        remaining_input == IF rem = <<>> THEN epsilon ELSE rem
    IN  IF Len(p0) < 2 \/ Len(parts) < 2
        THEN [ok |-> FALSE, row |-> <<>>]
        ELSE IF Len(parts) >= 3 /\ parts[3] /= EMPTYSTACK
        THEN IF \E i \in 1..Len(pieces) : Len(pieces[i]) < 2
             THEN [ok |-> FALSE, row |-> <<>>]
             ELSE [ok |-> TRUE,
                   row |-> <<p0[2], remaining_input,
                             join([i \in 1..Len(pieces) |-> pieces[i][2]])>>]
        ELSE [ok |-> TRUE, row |-> <<p0[2], remaining_input, epsilon>>]

\* the body of the for loop: the row appended for one step, or ok = FALSE
\* when an index is out of range (IndexError)
Row(step) ==
    LET parts == split(str(step), <<",", " ">>)
        p0 == split(parts[1], <<"'">>)
        stack_parts == SubSeq(parts, 3, Len(parts))
        pieces == [i \in 1..Len(stack_parts) |->
                      split(stack_parts[Len(stack_parts) + 1 - i], <<"'">>)]
        rem == remove_quotes(parts[2])
        remaining_input == IF rem = <<>> THEN epsilon ELSE rem
    IN  IF Len(p0) < 2 \/ Len(parts) < 2
        THEN [ok |-> FALSE, row |-> <<>>]
        ELSE IF Len(parts) >= 3 /\ parts[3] /= EMPTYSTACK
        THEN IF \E i \in 1..Len(pieces) : Len(pieces[i]) < 2
             THEN [ok |-> FALSE, row |-> <<>>]
             ELSE [ok |-> TRUE,
                   row |-> <<p0[2], remaining_input,
                             join([i \in 1..Len(pieces) |-> pieces[i][2]])>>]
        ELSE [ok |-> TRUE, row |-> <<p0[2], remaining_input, epsilon>>]

\* a table rendered without its last row
Table_dropped(rows) ==
    [kind |-> "table", rows |-> SubSeq(rows, 1, Len(rows) - 1), text |-> ""]

\* what is printed: a rendered table or a line of text
Table(rows) == [kind |-> "table", rows |-> rows, text |-> ""]
Line(text) == [kind |-> "line", rows |-> <<>>, text |-> text]

\* the lines stepsTable(s) prints after its table: none when the loop
\* ran to its end, the blank line and the fixed message when anything raised
RECURSIVE stepsTable_lines(_, _, _)
stepsTable_lines(g, c, s) ==
    LET r == read_input_stepwise(g, c, s)
    IN  IF r.kind = "yield" /\ Row(r.config).ok
        THEN stepsTable_lines("running", r.config, s)
        ELSE IF r.kind = "stop" THEN <<>>
        ELSE <<Line(""), Line(FailureMessage)>>

stepsTable_report(s) == stepsTable_lines("created", NoConfig, s)

\* ------------------------------------------------------------- state
VARIABLES
    pc,            \* where the driver loop is: "menu", "trace" (inside
                   \* stepsTable), "run" (inside accepts_input), "wait"
                   \* ("Press Enter to continue."), "invalid", "exit"
    show_steps,    \* the Show Step-By-Step switch
    choice,        \* the menu choice last made: 1, 2 or 3 (0 before the first)
    toggles,       \* how many times choice 2 has been made, modulo 2
    input_string,  \* the text submitted, '!' appended
    gen,           \* the generator being consumed: "created" | "running"
    config,        \* its current_configuration (left over from the previous
                   \* generator while gen = "created")
    yielded,       \* the configurations stepsTable received, in order
    table,         \* the rows stepsTable has appended
    printed,       \* what has been printed since the last clear()
    verdict        \* "Accepted" | "Rejected" once accepts_input returned

vars == <<pc, show_steps, choice, toggles, input_string, gen, config,
          yielded, table, printed, verdict>>

\* texts of at most n characters over the alphabet A
RECURSIVE Texts(_, _)
Texts(A, n) ==
    IF n = 0 THEN {<<>>}
    ELSE LET shorter == Texts(A, n - 1)
         IN  shorter \cup {Append(t, c) : t \in {s \in shorter : Len(s) = n - 1}, c \in A}

\* what the keyboard can deliver to the prompt
RawChars == {"a", "B", " ", "1", "\n"}
RawTexts == Texts(RawChars, MaxLen)

Init ==
    /\ pc = "menu"
    /\ show_steps = FALSE
    /\ choice = 0
    /\ toggles = 0
    /\ input_string = <<>>
    /\ gen = "created"
    /\ config = NoConfig
    /\ yielded = <<>>
    /\ table = <<>>
    /\ printed = <<>>
    /\ verdict = "none"

\* the texts the prompt can return: prompt() only returns once
\* InputValidator(alphaSpace=True).validate raised nothing
ValidTexts == {text \in RawTexts : validate(text)}

\* choice 1: the prompt returns a text its validator let through; the text
\* is lowercased and checked again, '!' is appended, and the trace (when
\* show_steps) or the run begins
InputString(text) ==
    /\ pc = "menu"
    /\ text \in ValidTexts
    /\ LET s == lower(text)
       IN  IF re_match(s)
           THEN /\ input_string' = Append(s, "!")
                /\ pc' = IF show_steps THEN "trace" ELSE "run"
                /\ printed' = <<>>
           ELSE /\ input_string' = s
                /\ pc' = "invalid"
                /\ printed' = <<Line("Invalid input!")>>
    /\ gen' = "created"
    /\ yielded' = <<>>
    /\ table' = <<>>
    /\ verdict' = "none"
    /\ choice' = 1
    /\ UNCHANGED <<show_steps, config, toggles>>

\* stepsTable: one iteration of `for step in steps`, or the end of the
\* loop; every exception lands in the bare except, which prints the rows
\* collected so far and the fixed message.  accepts_input follows.
TraceStep ==
    /\ pc = "trace"
    /\ LET r == read_input_stepwise(gen, config, input_string)
           row == Row(r.config)
       IN  CASE r.kind = "yield" /\ row.ok ->
                  /\ config' = r.config
                  /\ gen' = "running"
                  /\ yielded' = Append(yielded, r.config)
                  /\ table' = Append(table, row.row)
                  /\ UNCHANGED <<pc, printed>>
             [] r.kind = "yield" /\ ~row.ok ->
                  /\ config' = r.config
                  /\ gen' = "created"
                  /\ yielded' = Append(yielded, r.config)
                  /\ printed' = <<Table(table), Line(""), Line(FailureMessage)>>
                  /\ pc' = "run"
                  /\ UNCHANGED table
             [] r.kind = "stop" ->
                  /\ gen' = "created"
                  /\ printed' = <<Table(table)>>
                  /\ pc' = "run"
                  /\ UNCHANGED <<config, yielded, table>>
             [] r.kind = "raise" ->
                  /\ gen' = "created"
                  /\ printed' = <<Table(table), Line(""), Line(FailureMessage)>>
                  /\ pc' = "run"
                  /\ UNCHANGED <<config, yielded, table>>
    /\ UNCHANGED <<show_steps, input_string, verdict, choice, toggles>>

\* dpda.accepts_input(input_string): one resumption of the generator that
\* read_input drains; its end decides the verdict, which is printed
RunStep ==
    /\ pc = "run"
    /\ LET r == read_input_stepwise(gen, config, input_string)
       IN  CASE r.kind = "yield" ->
                  /\ config' = r.config
                  /\ gen' = "running"
                  /\ UNCHANGED <<pc, printed, verdict>>
             [] r.kind = "stop" ->
                  /\ verdict' = "Accepted"
                  /\ printed' = Append(printed, Line("INPUT IS ACCEPTED"))
                  /\ pc' = "wait"
                  /\ UNCHANGED <<config, gen>>
             [] r.kind = "raise" ->
                  /\ verdict' = "Rejected"
                  /\ printed' = Append(printed, Line("INPUT IS REJECTED"))
                  /\ pc' = "wait"
                  /\ UNCHANGED <<config, gen>>
    /\ UNCHANGED <<show_steps, input_string, yielded, table, choice, toggles>>

\* Enter is pressed (or the 3 second pause ends): back to the top of the
\* loop, where clear() wipes the screen; the table of stepsTable and the
\* value accepts_input returned are gone
Continue ==
    /\ pc \in {"wait", "invalid"}
    /\ pc' = "menu"
    /\ printed' = <<>>
    /\ yielded' = <<>>
    /\ table' = <<>>
    /\ verdict' = "none"
    /\ UNCHANGED <<show_steps, input_string, gen, config, choice, toggles>>

\* choice 2 switching the steps on whatever the switch was
ToggleSteps_on ==
    /\ pc = "menu"
    /\ choice' = 2
    /\ toggles' = (toggles + 1) % 2
    /\ show_steps' = TRUE
    /\ UNCHANGED <<pc, input_string, gen, config, yielded, table, printed, verdict>>

\* choice 2
ToggleSteps ==
    /\ pc = "menu"
    /\ choice' = 2
    /\ toggles' = (toggles + 1) % 2
    /\ show_steps' = (IF show_steps THEN FALSE ELSE TRUE)
    /\ UNCHANGED <<pc, input_string, gen, config, yielded, table, printed, verdict>>

\* choice 3
Exit ==
    /\ pc = "menu"
    /\ pc' = "exit"
    /\ choice' = 3
    /\ UNCHANGED <<show_steps, input_string, gen, config, yielded, table, printed, verdict, toggles>>

Next ==
    \/ \E text \in ValidTexts : InputString(text)
    \/ TraceStep
    \/ RunStep
    \/ Continue
    \/ ToggleSteps
    \/ Exit

Spec == Init /\ [][Next]_vars

\* ------------------------------------------------------ direct calls
\* stepsTable(s) followed by dpda.accepts_input(s) for any string s a
\* caller may hand over: a prefix over a few representative characters,
\* optionally followed by one character of the whole alphabet
CallChars == {"a", "b", " ", "!", ","}
CallInputs ==
    LET prefixes == Texts(CallChars, MaxPrefix)
    IN  prefixes \cup {Append(p, c) : p \in prefixes, c \in input_symbols}

InitCall ==
    /\ pc = "trace"
    /\ show_steps = TRUE
    /\ choice = 1
    /\ toggles = 1
    /\ input_string \in CallInputs
    /\ gen = "created"
    /\ config = NoConfig
    /\ yielded = <<>>
    /\ table = <<>>
    /\ printed = <<>>
    /\ verdict = "none"

NextCall == TraceStep \/ RunStep

SpecCall == InitCall /\ [][NextCall]_vars

\* =================================================== claims
\* a non-empty text over {a-z, space} followed by exactly one '!'
WellFormed(s) ==
    /\ Len(s) >= 2
    /\ s[Len(s)] = "!"
    /\ \A i \in 1..(Len(s) - 1) : s[i] \in Letters \cup {" "}

\* position i holds the first letter of a word
IsFirstLetter(s, i) == s[i] \in Letters /\ (i = 1 \/ s[i - 1] = " ")

VowelWords(s) ==
    Cardinality({i \in 1..Len(s) : IsFirstLetter(s, i) /\ s[i] \in Vowels})
ConsonantWords(s) ==
    Cardinality({i \in 1..Len(s) : IsFirstLetter(s, i) /\ s[i] \in Consonants})

\* C1: a well-formed input with as many vowel-first as consonant-first
\* words is Accepted.
C1_BalancedAccepted ==
    (pc = "wait" /\ WellFormed(input_string)
        /\ VowelWords(input_string) = ConsonantWords(input_string))
    => verdict = "Accepted"

\* a sentence with one word of each kind and a repeated space was accepted
C1_Witness ==
    /\ pc = "wait"
    /\ WellFormed(input_string)
    /\ VowelWords(input_string) = 1
    /\ ConsonantWords(input_string) = 1
    /\ \E i \in 1..(Len(input_string) - 1) :
          input_string[i] = " " /\ input_string[i + 1] = " "
    /\ verdict = "Accepted"

\* C2: a well-formed input whose two word counts differ is Rejected.
C2_UnbalancedRejected ==
    (pc = "wait" /\ WellFormed(input_string)
        /\ VowelWords(input_string) /= ConsonantWords(input_string))
    => verdict = "Rejected"

\* a sentence of two consonant-first words and no other was rejected
C2_Witness ==
    /\ pc = "wait"
    /\ WellFormed(input_string)
    /\ VowelWords(input_string) = 0
    /\ ConsonantWords(input_string) = 2
    /\ verdict = "Rejected"

\* C3: for a well-formed input the verdict is Accepted exactly when the
\* configuration left after END is in state q2 with an empty stack.
C3_AcceptedIffQ2EmptyStack ==
    (pc = "wait" /\ WellFormed(input_string))
    => /\ config.remaining_input = <<>>
       /\ (verdict = "Accepted") <=> (config.state = "q2" /\ config.stack = <<>>)
       /\ (verdict = "Rejected") <=> ~(config.state = "q2" /\ config.stack = <<>>)

\* both final configurations occur: q2 with credits left is Rejected ...
C3_Witness ==
    /\ pc = "wait"
    /\ WellFormed(input_string)
    /\ config.state = "q2"
    /\ Len(config.stack) = 3
    /\ verdict = "Rejected"

\* Bottom exactly once, at the base, and one kind of credit above it
StackShape(stack) ==
    /\ Len(stack) >= 1
    /\ stack[1] = "S"
    /\ \A i \in 2..Len(stack) : stack[i] \in {"V", "C"}
    /\ \A i, j \in 2..Len(stack) : stack[i] = stack[j]

\* C4 as stated: every configuration of the trace of a well-formed input,
\* the final one included, has Bottom once at the base and one kind of
\* credit above it.
C4_ShapeEverywhere ==
    WellFormed(input_string)
    => \A i \in 1..Len(yielded) : StackShape(yielded[i].stack)

\* C4 (amended): every configuration of the trace of a well-formed input
\* has Bottom once at the base and one kind of credit above it, except the
\* final configuration of an accepted input, whose stack is empty.
C4_ShapeUntilAccepted ==
    WellFormed(input_string)
    => \A i \in 1..Len(yielded) :
          \/ StackShape(yielded[i].stack)
          \/ /\ i = Len(input_string) + 1
             /\ yielded[i].remaining_input = <<>>
             /\ yielded[i].stack = <<>>

\* a complete trace that held a credit, cancelled it and ended with the
\* stack empty
C4_Witness ==
    /\ pc = "trace"
    /\ WellFormed(input_string)
    /\ Len(yielded) = Len(input_string) + 1
    /\ \E i, j \in 1..Len(yielded) :
          i < j /\ Len(yielded[i].stack) = 2 /\ yielded[j].stack = <<"S">>
    /\ yielded[Len(yielded)].stack = <<>>

\* the generator handed over its next configuration in this step
Consumed ==
    /\ gen' = "running"
    /\ config'.remaining_input = Tail(config.remaining_input)

\* C5: a letter read in q1 (not the first of its word) leaves the stack
\* unchanged and the state q1, for each of the 26 letters and every top.
C5_NonFirstLetterNoEffect ==
    [][(/\ pc \in {"trace", "run"}
        /\ gen = "running"
        /\ config.state = "q1"
        /\ config.remaining_input /= <<>>
        /\ Head(config.remaining_input) \in Letters)
       => (Consumed /\ config'.state = "q1" /\ config'.stack = config.stack)]_vars

\* 'z' was read in q1 with only Bottom on the stack
C5_Witness ==
    /\ pc = "trace"
    /\ Len(yielded) >= 2
    /\ LET k == Len(yielded)
       IN  /\ yielded[k - 1].state = "q1"
           /\ Head(yielded[k - 1].remaining_input) = "z"
           /\ yielded[k - 1].stack = <<"S">>
           /\ yielded[k].state = "q1"
           /\ yielded[k].stack = <<"S">>

\* the text with leading and trailing spaces removed and every run of
\* spaces reduced to one
Squeeze(s) ==
    LET keep(i) == \/ s[i] /= " "
                   \/ /\ i > 1
                      /\ s[i - 1] /= " "
                      /\ \E j \in (i + 1)..Len(s) : s[j] \in Letters
        F[i \in 0..Len(s)] ==
            IF i = 0 THEN <<>>
            ELSE IF keep(i) THEN Append(F[i - 1], s[i]) ELSE F[i - 1]
    IN  F[Len(s)]

VerdictOf(accepted) == IF accepted THEN "Accepted" ELSE "Rejected"

\* C6: reading a space in q0 or q1 leaves the stack unchanged and the
\* state q0; the verdict of a well-formed input is that of the input with
\* its superfluous spaces removed, and a text of spaces only is Accepted.
C6_SpaceNoEffect ==
    /\ [][(/\ pc \in {"trace", "run"}
           /\ gen = "running"
           /\ config.state \in {"q0", "q1"}
           /\ config.remaining_input /= <<>>
           /\ Head(config.remaining_input) = " ")
          => (Consumed /\ config'.state = "q0" /\ config'.stack = config.stack)]_vars
    /\ []((pc = "wait" /\ WellFormed(input_string))
          => /\ verdict = VerdictOf(accepts_input(Squeeze(input_string)))
             /\ (\A i \in 1..(Len(input_string) - 1) : input_string[i] = " ")
                   => verdict = "Accepted")

\* the verdict for a sentence of two words separated by two spaces
C6_Witness ==
    /\ pc = "wait"
    /\ WellFormed(input_string)
    /\ \E i \in 2..(Len(input_string) - 1) :
          input_string[i] = " " /\ input_string[i + 1] = " "
    /\ VowelWords(input_string) = 1
    /\ ConsonantWords(input_string) = 1
    /\ Squeeze(input_string) = <<input_string[1], " ", input_string[4], "!">>
    /\ verdict = "Accepted"

\* C7: the verdict depends on the input alone: whatever the menu did
\* before, every run starts from (q0, input, [S]) and ends with the verdict
\* of a fresh automaton on that input.
C7_VerdictFunctionOfInput ==
    /\ [](pc = "wait" => verdict = VerdictOf(accepts_input(input_string)))
    /\ [][(pc = "run" /\ gen = "created")
          => config' = Configuration("q0", input_string, <<"S">>)]_vars

\* an accepted run that followed a toggle and a trace of the same input
C7_Witness ==
    /\ pc = "wait"
    /\ show_steps
    /\ Len(yielded) = Len(input_string) + 1
    /\ VowelWords(input_string) = 1
    /\ verdict = "Accepted"

\* C8: the trace of a well-formed input of n symbols is n+1 configurations,
\* from (q0, input, [S]) on, each dropping the first unread symbol of the
\* one before, ending where the run ends, with an empty stack exactly when
\* the verdict is Accepted.
C8_TraceIsTheRun ==
    (pc = "wait" /\ show_steps /\ WellFormed(input_string))
    => LET n == Len(input_string)
       IN  /\ Len(yielded) = n + 1
           /\ yielded[1] = Configuration("q0", input_string, <<"S">>)
           /\ \A i \in 1..(Len(yielded) - 1) :
                 /\ yielded[i].remaining_input /= <<>>
                 /\ yielded[i + 1].remaining_input = Tail(yielded[i].remaining_input)
           /\ yielded[Len(yielded)] = config
           /\ (yielded[Len(yielded)].stack = <<>>) <=> (verdict = "Accepted")

\* the trace and the accepting run of a sentence of four characters
C8_Witness ==
    /\ pc = "wait"
    /\ show_steps
    /\ WellFormed(input_string)
    /\ Len(input_string) = 5
    /\ Len(yielded) = 6
    /\ VowelWords(input_string) = 1
    /\ yielded[6].stack = <<>>
    /\ verdict = "Accepted"

\* empty, no '!' at the end, a '!' before the end, or a foreign character
Malformed(s) ==
    \/ s = <<>>
    \/ s[Len(s)] /= "!"
    \/ \E i \in 1..(Len(s) - 1) : s[i] = "!"
    \/ \E i \in 1..Len(s) : s[i] \notin input_symbols

\* stepsTable has just returned
TraceReturned == pc = "run" /\ gen = "created"

\* what stepsTable printed after its table
TraceReport == SelectSeq(printed, LAMBDA x : x.kind = "line")

\* what stepsTable prints after its table for the well-formed inputs
WellFormedReports ==
    {stepsTable_report(s) : s \in {t \in CallInputs : WellFormed(t)}}

\* C9: the trace of a malformed input reports a failure, and what it
\* reports differs from what the trace of any well-formed input reports.
C9_MalformedTraceDistinct ==
    (TraceReturned /\ Malformed(input_string))
    => /\ TraceReport /= <<>>
       /\ TraceReport \notin WellFormedReports

\* the failure that ended the trace: the last configuration could not be
\* rendered, or the generator raised when resumed after it
TraceFailed ==
    \/ ~Row(config).ok
    \/ read_input_stepwise("running", config, input_string).kind = "raise"

\* C10: when the trace fails after k rows, stepsTable returns to its
\* caller having printed the table of exactly those k rows, in order,
\* followed by the failure message.
C10_PartialTraceRendered ==
    (pc /= "trace" /\ gen = "created" /\ verdict = "none" /\ TraceFailed)
    => /\ pc = "run"
       /\ Len(printed) = 3
       /\ printed[1].kind = "table"
       /\ printed[1].rows = table
       /\ printed[2] = Line("")
       /\ printed[3] = Line(FailureMessage)
       /\ Len(table) = Cardinality({i \in 1..Len(yielded) : Row(yielded[i]).ok})
       /\ \A i \in 1..Len(table) : table[i] = Row(yielded[i]).row

\* the trace of a sentence handed over without its '!': four rows, then
\* the failure at the end of the input
C10_Witness ==
    /\ TraceReturned
    /\ TraceFailed
    /\ Len(input_string) = 3
    /\ \A i \in 1..3 : input_string[i] \in Letters \cup {" "}
    /\ Len(table) = 4
    /\ Len(printed) = 3

CreditOf(a) == IF a \in Vowels THEN "V" ELSE "C"

\* C12: a letter read in q0 (the first of its word) moves to q1; it pushes
\* its own credit when the top is Bottom or a credit of its kind and pops
\* the top when the top is a credit of the other kind, so the depth changes
\* by exactly one; this is so for each of the 5 vowels and 21 consonants.
C12_FirstLetterCounts ==
    [][(/\ pc \in {"trace", "run"}
        /\ gen = "running"
        /\ config.state = "q0"
        /\ config.remaining_input /= <<>>
        /\ Head(config.remaining_input) \in Letters)
       => LET a == Head(config.remaining_input)
              X == top(config.stack)
          IN  /\ Consumed
              /\ config'.state = "q1"
              /\ X \in {"S", CreditOf(a)}
                    => config'.stack = Append(config.stack, CreditOf(a))
              /\ X \notin {"S", CreditOf(a)}
                    => config'.stack = SubSeq(config.stack, 1, Len(config.stack) - 1)
              /\ Len(config'.stack) \in {Len(config.stack) + 1,
                                         Len(config.stack) - 1}]_vars

\* 'y' read in q0 cancelled a vowel credit
C12_Witness ==
    /\ pc = "trace"
    /\ Len(yielded) >= 2
    /\ LET k == Len(yielded)
       IN  /\ yielded[k - 1].state = "q0"
           /\ Head(yielded[k - 1].remaining_input) = "y"
           /\ yielded[k - 1].stack = <<"S", "V">>
           /\ yielded[k].state = "q1"
           /\ yielded[k].stack = <<"S">>

\* the step from the i-th to the next traced configuration read END
ReadsEnd(i) ==
    /\ i < Len(yielded)
    /\ yielded[i].remaining_input /= <<>>
    /\ Head(yielded[i].remaining_input) = "!"

\* C13 as stated: q2 is entered only by reading END on Bottom; reading END
\* on a credit leaves the automaton outside q2 with the stack unchanged.
C13_Q2OnlyOnBottom ==
    \A i \in 1..(Len(yielded) - 1) :
        /\ yielded[i + 1].state = "q2"
              => ReadsEnd(i) /\ top(yielded[i].stack) = "S"
        /\ (ReadsEnd(i) /\ top(yielded[i].stack) \in {"V", "C"})
              => /\ yielded[i + 1].state /= "q2"
                 /\ yielded[i + 1].stack = yielded[i].stack

\* C13: q2 is entered only by reading END, on any top; on Bottom the stack
\* becomes empty, on a credit the automaton also enters q2 with the stack
\* unchanged, and that configuration is not an accepting one.
C13_Q2OnlyOnEnd ==
    \A i \in 1..(Len(yielded) - 1) :
        /\ yielded[i + 1].state = "q2" => ReadsEnd(i)
        /\ (ReadsEnd(i) /\ top(yielded[i].stack) = "S")
              => /\ yielded[i + 1].state = "q2"
                 /\ yielded[i + 1].stack = <<>>
        /\ (ReadsEnd(i) /\ top(yielded[i].stack) \in {"V", "C"})
              => /\ yielded[i + 1].state = "q2"
                 /\ yielded[i + 1].stack = yielded[i].stack
                 /\ ~has_accepted(yielded[i + 1])

\* END was read in q1 with a consonant credit on top
C13_Witness ==
    /\ pc = "trace"
    /\ Len(yielded) >= 2
    /\ LET k == Len(yielded)
       IN  /\ ReadsEnd(k - 1)
           /\ yielded[k - 1].state = "q1"
           /\ yielded[k - 1].stack = <<"S", "C">>
           /\ yielded[k].state = "q2"
           /\ yielded[k].stack = <<"S", "C">>

\* Bottom under n credits of kind X
Credits(n, X) == <<"S">> \o [k \in 1..n |-> X]

\* C14: in every configuration of a run on a well-formed input that still
\* has END to read, with v and c the numbers of vowel-first and
\* consonant-first words whose first letter has been read, the stack is
\* Bottom under exactly |v - c| credits: V when v > c, C when c > v.
C14_StackIsDifference ==
    WellFormed(input_string)
    => \A i \in 1..Len(yielded) :
          yielded[i].remaining_input /= <<>>
          => LET read == SubSeq(input_string, 1, i - 1)
                 v == VowelWords(read)
                 c == ConsonantWords(read)
             IN  /\ yielded[i].remaining_input =
                       SubSeq(input_string, i, Len(input_string))
                 /\ yielded[i].stack =
                       IF v >= c THEN Credits(v - c, "V")
                                 ELSE Credits(c - v, "C")

\* after one vowel-first and one consonant-first word only Bottom is left
C14_Witness ==
    /\ pc = "trace"
    /\ WellFormed(input_string)
    /\ \E i \in 1..Len(yielded) :
          LET read == SubSeq(input_string, 1, i - 1)
          IN  /\ yielded[i].remaining_input /= <<>>
              /\ ConsonantWords(read) = 1
              /\ VowelWords(read) = 1
              /\ yielded[i].stack = <<"S">>

HoldsBottom(stack) == \E k \in 1..Len(stack) : stack[k] = "S"

\* C15: Bottom leaves the stack only in a step that reads END; no step is
\* taken from a configuration with an empty stack; on a well-formed input
\* every configuration with unread input has a non-empty stack.
C15_BottomUntilEnd ==
    /\ \A i \in 1..(Len(yielded) - 1) :
          /\ (HoldsBottom(yielded[i].stack) /\ ~HoldsBottom(yielded[i + 1].stack))
                => ReadsEnd(i)
          /\ yielded[i].stack /= <<>>
    /\ WellFormed(input_string)
          => \A i \in 1..Len(yielded) :
                yielded[i].remaining_input /= <<>> => yielded[i].stack /= <<>>

\* END popped Bottom while more input follows: the run stops there
C15_Witness ==
    /\ pc = "run"
    /\ printed /= <<>>
    /\ Len(yielded) >= 2
    /\ LET k == Len(yielded)
       IN  /\ ReadsEnd(k - 1)
           /\ yielded[k - 1].stack = <<"S">>
           /\ yielded[k].stack = <<>>
           /\ yielded[k].remaining_input /= <<>>

HoldsCredit(stack) == \E k \in 1..Len(stack) : stack[k] \in {"V", "C"}

\* the run has consumed all its input with a credit still on the stack
UnmatchedAtEnd(c) == c.remaining_input = <<>> /\ HoldsCredit(c.stack)

\* C16 as stated: no run on a well-formed input reaches a configuration
\* with empty remaining input and a credit still on the stack.
C16_NeverUnmatchedAtEnd ==
    (WellFormed(input_string) /\ pc \in {"run", "wait"} /\ gen = "running")
    => ~UnmatchedAtEnd(config)

\* C16: a run on a well-formed input ends with empty remaining input and a
\* credit still on the stack exactly when the numbers of vowel-first and
\* consonant-first words differ, which is when the verdict is Rejected; no
\* configuration with unread input is of that kind.
C16_UnmatchedIffRejected ==
    WellFormed(input_string)
    => /\ pc = "wait"
          => /\ UnmatchedAtEnd(config)
                   <=> VowelWords(input_string) /= ConsonantWords(input_string)
             /\ UnmatchedAtEnd(config) <=> verdict = "Rejected"
       /\ (pc = "run" /\ gen = "running" /\ UnmatchedAtEnd(config))
             => /\ config.state = "q2"
                /\ VowelWords(input_string) /= ConsonantWords(input_string)

\* "a!" was rejected in (q2, '', [S, V])
C16_Witness ==
    /\ pc = "wait"
    /\ input_string = <<"a", "!">>
    /\ config = Configuration("q2", <<>>, <<"S", "V">>)
    /\ verdict = "Rejected"

\* a run on a well-formed input is under way
Running == WellFormed(input_string) /\ pc \in {"trace", "run"} /\ gen = "running"

\* C17: a run on a well-formed input of n symbols ends after exactly n
\* steps: wherever input is unread exactly one transition is defined, it
\* reads the next symbol and no move is made without reading one; the run
\* goes on until the input, whose last symbol is END, is consumed, and the
\* step after that ends it.
C17_RunTerminates ==
    /\ [](Running /\ config.remaining_input /= <<>>
            => /\ HasTransition(config.state, Head(config.remaining_input),
                                top(config.stack))
               /\ ~has_lambda_transition(config.state, top(config.stack)))
    /\ [][(Running /\ config.remaining_input /= <<>>)
            => (Consumed /\ pc' = pc)]_vars
    /\ [][(Running /\ config.remaining_input = <<>>)
            => (pc' /= pc /\ config' = config)]_vars
    /\ []((Running /\ pc = "trace")
            => Len(yielded) - 1 = Len(input_string) - Len(config.remaining_input))
    /\ []((Running /\ config.remaining_input = <<>>) => config.state = "q2")

\* the run on a well-formed input of four symbols has a verdict, the trace
\* having taken four steps
C17_Witness ==
    /\ pc = "wait"
    /\ WellFormed(input_string)
    /\ Len(input_string) = 4
    /\ Len(yielded) = 5
    /\ config.remaining_input = <<>>

\* C18 as stated: whenever the menu loop hands an input to stepsTable or
\* to accepts_input, the input is well-formed: lower-case letters and
\* spaces only, at least one of them, followed by exactly one END.
C18_OnlyWellFormedInvoked ==
    pc \in {"trace", "run"} => WellFormed(input_string)

\* the fixed failure message is among the printed lines
FailurePrinted == \E k \in 1..Len(printed) : printed[k] = Line(FailureMessage)

TableShown == \E k \in 1..Len(printed) : printed[k].kind = "table"

\* the last printed line is the verdict
VerdictShown ==
    /\ printed /= <<>>
    /\ printed[Len(printed)] \in {Line("INPUT IS ACCEPTED"), Line("INPUT IS REJECTED")}

\* C20: show_steps starts off and is on exactly when choice 2 has been made
\* an odd number of times; choices 1 and 3 leave it as it is; the trace of
\* an input is shown exactly when show_steps is on when it is submitted;
\* every submitted input gets its verdict printed before the menu returns;
\* the loop ends only on choice 3.
C20_ToggleAndLoop ==
    /\ [](show_steps <=> toggles = 1)
    /\ [][pc = "menu"
            => /\ choice' \in {1, 2, 3}
               /\ choice' = 2 => show_steps' /= show_steps /\ pc' = "menu"
               /\ choice' \in {1, 3} => show_steps' = show_steps
               /\ choice' = 1 => pc' = IF show_steps THEN "trace" ELSE "run"
               /\ pc' = "exit" <=> (choice' = 3)]_vars
    /\ [][pc /= "menu" => (UNCHANGED <<show_steps, choice>> /\ pc' /= "exit")]_vars
    /\ [][(pc \in {"trace", "run"}) => (pc' \in {"trace", "run", "wait"})]_vars
    /\ [](pc = "wait" => (VerdictShown /\ (TableShown <=> show_steps)))

\* choice 2 having been made an odd number of times, an input submitted
\* with choice 1 was traced and got its verdict
C20_Witness ==
    /\ pc = "wait"
    /\ choice = 1
    /\ toggles = 1
    /\ show_steps
    /\ TableShown
    /\ VerdictShown

====
